---- MODULE Spec2Model ----
(***************************************************************************)
(* Verification model of the Space Invaders core:                          *)
(*   - GameLoop            (src/src/core/Collision.js, class GameLoop)      *)
(*   - EntityManager       (src/src/core/EntityManager.js)                  *)
(*                                                                         *)
(* Time is counted in units of 1/300 ms, so that both the frame interval   *)
(* 1000/60 ms (= 5000 units) and the delta cap 33.33 ms (= 9999 units) are *)
(* integers and the accumulator arithmetic is exact.                       *)
(***************************************************************************)
EXTENDS Integers, Sequences, FiniteSets, TLC

VARIABLES
    \* ---- GameLoop fields ----
    isRunning,      \* this.isRunning
    lastFrameTime,  \* this.lastFrameTime
    accumulator,    \* this.accumulator
    errorCount,     \* this.errorCount
    updateFn,       \* this.updateFn
    renderFn,       \* this.renderFn
    \* ---- host environment of the loop ----
    now,            \* the clock read by performance.now() and handed to callbacks
    pending,        \* number of gameLoop callbacks queued by requestAnimationFrame
    \* ---- observation of the last operation ----
    lastOp,         \* what the last operation was and how it ended
    trace,          \* the updateFn/renderFn calls made by the last gameLoop() call
    consecFails,    \* failed iterations since the last successful one
    starts,         \* number of successful start() calls so far
    \* ---- EntityManager fields ----
    objects,        \* the entity objects of the heap, by object reference
    entities,       \* this.entities: id -> object reference
    entityTypeMap,  \* this.entityTypeMap: type -> set of ids
    spatialGrid,    \* this.spatialGrid: the pairs <<cell key, object reference>>
    \* ---- observation of the last EntityManager operation ----
    emOp,           \* what the last operation was and how it ended
    collisions,     \* the list returned by the last detectCollisions()
    \* ---- Entity instances and the CollisionSystem ----
    ents,           \* the Entity objects constructed so far, by slot
    entOp,          \* the last Entity / CollisionSystem call and how it ended
    \* ---- CollisionSystem ----
    quadTree,       \* this.quadTree: null, or the entities of the root node
    csOp,           \* the last CollisionSystem.update call and what it returned
    \* ---- ObjectPool ----
    poolOptions,    \* the options of the constructed pool, or NoOptions
    poolAvailable,  \* this._pool: the available objects, last one popped first
    poolActive,     \* this._active: the acquired objects
    poolMetrics,    \* this._metrics
    created,        \* number of objects the factory has made so far
    poolOp,         \* the last ObjectPool call and how it ended
    \* ---- PerformanceMonitor ----
    perf,           \* the fields of the monitor
    perfNow,        \* the clock read by performance.now()
    perfOpen,       \* a frame has been started and not yet ended
    perfCompleted,  \* frames completed since construction or reset
    perfOp,         \* the last PerformanceMonitor call and how it ended
    \* ---- Game ----
    gameState,      \* this.state.current and this.state.paused
    input,          \* this.input
    pausedByKey,    \* the game is paused and it was paused by the Escape/P key
    gameOp,         \* the last Game call or key event and how it ended
    \* ---- Game: lives, level and the enemy formation ----
    lives,          \* this.state.lives
    level,          \* this.state.level
    enemies,        \* this.enemies: the Entity objects in creation order
    enemyDirection, \* this.enemyDirection: 1 for right, -1 for left
    battleOp        \* the last call on the formation or the lives and how it ended

loopVars == <<isRunning, lastFrameTime, accumulator, errorCount, updateFn,
              renderFn, now, pending, lastOp, trace, consecFails, starts>>

emVars == <<objects, entities, entityTypeMap, spatialGrid, emOp, collisions>>

entVars == <<ents, entOp>>

csVars == <<quadTree, csOp>>

poolVars == <<poolOptions, poolAvailable, poolActive, poolMetrics, created,
              poolOp>>

perfVars == <<perf, perfNow, perfOpen, perfCompleted, perfOp>>

gameVars == <<gameState, input, pausedByKey, gameOp>>

battleVars == <<lives, level, enemies, enemyDirection, battleOp>>

vars == <<loopVars, emVars, entVars, csVars, poolVars, perfVars, gameVars,
          battleVars>>

\* the variables an operation of one component leaves alone
notLoopVars == <<emVars, entVars, csVars, poolVars, perfVars,
               gameVars, battleVars>>
notEmVars == <<loopVars, entVars, csVars, poolVars, perfVars,
               gameVars, battleVars>>
notEntVars == <<loopVars, emVars, csVars, poolVars, perfVars,
               gameVars, battleVars>>
notCsVars == <<loopVars, emVars, entVars, poolVars, perfVars,
               gameVars, battleVars>>
notPoolVars == <<loopVars, emVars, entVars, csVars, perfVars,
               gameVars, battleVars>>
notPerfVars == <<loopVars, emVars, entVars, csVars, poolVars,
               gameVars, battleVars>>
notGameVars == <<loopVars, emVars, entVars, csVars, poolVars, perfVars,
                 battleVars>>
notBattleVars == <<loopVars, emVars, entVars, csVars, poolVars, perfVars>>

-----------------------------------------------------------------------------
(* Bounds of the model *)

MaxTime == 30000        \* the clock stops at 100 ms
MaxStarts == 2          \* successful start() calls in one behaviour
MaxScriptAt == 2        \* a callback misbehaves at its 1st .. MaxScriptAt-th call
MaxIds == 2             \* distinct entity ids
MaxEnts == 2            \* Entity objects constructed in one behaviour
MaxHandlers == 2        \* listeners registered on an entity at one time
MaxX == 6               \* Entity.update moves an entity up to this x
MaxObjects == 4         \* objects the pool's factory makes in one behaviour
MaxClock == 3           \* the monitor's clock stops at this reading (ms)
MaxFrames == 3          \* frames the monitor completes between resets
MaxListLen == 3         \* entities in the list handed to CollisionSystem.update
MaxY == 300             \* the formation drops while its enemies stay above this y
MaxLevel == 2           \* nextLevel() is called up to this level
MaxDestroyed == 1       \* columns of the formation destroyed in one level
MaxHits == 4            \* hits on the player handled in one behaviour

-----------------------------------------------------------------------------
(* GameLoop constructor *)

targetFPS == 60
frameInterval == 300000 \div targetFPS      \* 1000 / targetFPS ms
maxDeltaTime == 9999                        \* 33.33 ms
maxErrors == 3

\* gaps between two callback timestamps: same frame, 16.67 ms, 50 ms
FiftyMs == 50 * 300
FrameGaps == {0, frameInterval, FiftyMs}

\* values that may be passed to start(): two functions and a non-function
Functions == {"fnA", "fnB"}
NonFunctions == {"null"}
StartArgs == Functions \cup NonFunctions

TypeofFunction(v) == v \in Functions

Min(a, b) == IF a < b THEN a ELSE b

\* what a callback does on its k-th call of an iteration
UpdateScripts ==
    {[kind |-> "ok", at |-> 0]} \cup
    {[kind |-> b, at |-> i] : b \in {"throw", "stop"}, i \in 1..MaxScriptAt}
RenderBehaviours == {"ok", "throw", "stop"}

Behaviour(script, k) == IF script.at = k THEN script.kind ELSE "ok"

NoOp == [op |-> "none", ran |-> FALSE, outcome |-> "none", threw |-> FALSE,
         resched |-> FALSE, userStop |-> FALSE, escaped |-> FALSE,
         gap |-> 0, delta |-> 0, accBefore |-> 0, arg1 |-> "null", arg2 |-> "null"]

LoopInit ==
    /\ isRunning = FALSE
    /\ lastFrameTime = 0
    /\ accumulator = 0
    /\ errorCount = 0
    /\ updateFn = "null"
    /\ renderFn = "null"
    /\ now = 0
    /\ pending = 0
    /\ lastOp = NoOp
    /\ trace = <<>>
    /\ consecFails = 0
    /\ starts = 0

-----------------------------------------------------------------------------
(* start(updateFn, renderFn) *)

StartValidUpdateOnly(u, r) == TypeofFunction(u)

StartValid(u, r) == TypeofFunction(u) /\ TypeofFunction(r)

Start(u, r) ==
    IF ~StartValid(u, r)
    THEN \* throw new Error(...): nothing is assigned
         /\ lastOp' = [NoOp EXCEPT !.op = "start", !.threw = TRUE,
                                   !.arg1 = u, !.arg2 = r]
         /\ UNCHANGED <<isRunning, lastFrameTime, accumulator, errorCount,
                        updateFn, renderFn, now, pending, trace, consecFails,
                        starts>>
    ELSE /\ starts < MaxStarts
         /\ updateFn' = u
         /\ renderFn' = r
         /\ isRunning' = TRUE
         /\ lastFrameTime' = now
         /\ accumulator' = 0
         /\ pending' = pending + 1
         /\ starts' = starts + 1
         /\ lastOp' = [NoOp EXCEPT !.op = "start", !.arg1 = u, !.arg2 = r]
         /\ UNCHANGED <<errorCount, now, trace, consecFails>>

(* stop() *)
Stop ==
    /\ isRunning' = FALSE
    /\ lastOp' = [NoOp EXCEPT !.op = "stop"]
    /\ UNCHANGED <<lastFrameTime, accumulator, errorCount, updateFn, renderFn,
                   now, pending, trace, consecFails, starts>>

-----------------------------------------------------------------------------
(* gameLoop(currentTime) *)

UncappedDelta(currentTime, last) == currentTime - last

CappedDelta(currentTime, last) == Min(currentTime - last, maxDeltaTime)

UpdateArgVariable(deltaTime) == deltaTime

\* the argument handed to updateFn
UpdateArg(deltaTime) == frameInterval

CallEvent(fn, arg, running) == [fn |-> fn, arg |-> arg, running |-> running]

\* while (this.accumulator >= this.frameInterval) { updateFn(...); ... }
RECURSIVE UpdateLoop(_, _, _, _, _, _)
UpdateLoop(acc, running, k, script, deltaTime, tr) ==
    IF acc >= frameInterval
    THEN LET b  == Behaviour(script, k)
             ev == CallEvent("update", UpdateArg(deltaTime), running)
         IN IF b = "throw"
            THEN [acc |-> acc, running |-> running, trace |-> Append(tr, ev),
                  threw |-> TRUE]
            ELSE UpdateLoop(acc - frameInterval,
                            IF b = "stop" THEN FALSE ELSE running,
                            k + 1, script, deltaTime, Append(tr, ev))
    ELSE [acc |-> acc, running |-> running, trace |-> tr, threw |-> FALSE]

\* render only when the iteration ran at least one fixed update
RenderStepTiedToUpdate(s, rb) ==
    IF Len(s.trace) = 0
    THEN s
    ELSE [acc |-> s.acc,
          running |-> IF rb = "stop" THEN FALSE ELSE s.running,
          trace |-> Append(s.trace, CallEvent("render", 0, s.running)),
          threw |-> rb = "throw"]

\* this.renderFn()
RenderStep(s, rb) ==
    [acc |-> s.acc,
     running |-> IF rb = "stop" THEN FALSE ELSE s.running,
     trace |-> Append(s.trace, CallEvent("render", 0, s.running)),
     threw |-> rb = "throw"]

\* the render call placed before the while loop
IterationRenderFirst(acc0, deltaTime, script, rb) ==
    LET r == RenderStep([acc |-> acc0, running |-> TRUE, trace |-> <<>>,
                         threw |-> FALSE], rb)
    IN IF r.threw THEN r
       ELSE UpdateLoop(acc0, r.running, 1, script, deltaTime, r.trace)

\* the body of the try block up to the render call
Iteration(acc0, deltaTime, script, rb) ==
    LET u == UpdateLoop(acc0, TRUE, 1, script, deltaTime, <<>>)
    IN IF u.threw THEN u ELSE RenderStep(u, rb)

\* stops one failure too early
HandleErrorEarly(ec) ==
    LET n == ec + 1
    IN [errorCount |-> n,
        stop |-> n >= maxErrors - 1,
        resched |-> ~(n >= maxErrors - 1),
        escaped |-> FALSE]

\* handleError(error): the error count after it, whether it stops the loop,
\* whether it schedules the next callback, whether the error leaves gameLoop
HandleError(ec) ==
    LET n == ec + 1
    IN [errorCount |-> n,
        stop |-> n >= maxErrors,
        resched |-> ~(n >= maxErrors),
        escaped |-> FALSE]

AfterSuccessKeep(ec) == ec

\* this.errorCount = 0 after a successful frame
AfterSuccess(ec) == 0

GameLoopFrame(gap, script, rb) ==
    /\ pending > 0
    /\ now + gap <= MaxTime
    /\ now' = now + gap
    /\ IF ~isRunning
       THEN \* if (!this.isRunning) return;
            /\ pending' = pending - 1
            /\ trace' = <<>>
            /\ lastOp' = [NoOp EXCEPT !.op = "frame", !.gap = gap]
            /\ UNCHANGED <<isRunning, lastFrameTime, accumulator, errorCount,
                           updateFn, renderFn, consecFails, starts>>
       ELSE LET currentTime == now + gap
                deltaTime == CappedDelta(currentTime, lastFrameTime)
                it == Iteration(accumulator + deltaTime, deltaTime, script, rb)
                h  == HandleError(errorCount)
                userStop == ~it.running
            IN /\ lastFrameTime' = currentTime
               /\ accumulator' = it.acc
               /\ trace' = it.trace
               /\ IF it.threw
                  THEN /\ errorCount' = h.errorCount
                       /\ isRunning' = (it.running /\ ~h.stop)
                       /\ pending' = pending - 1 + (IF h.resched THEN 1 ELSE 0)
                       /\ consecFails' = consecFails + 1
                       /\ lastOp' = [NoOp EXCEPT !.op = "frame", !.ran = TRUE,
                                        !.outcome = IF h.stop THEN "fatal" ELSE "failed",
                                        !.threw = TRUE, !.resched = h.resched,
                                        !.userStop = userStop,
                                        !.escaped = h.escaped, !.gap = gap,
                                        !.delta = deltaTime,
                                        !.accBefore = accumulator]
                  ELSE /\ errorCount' = AfterSuccess(errorCount)
                       /\ isRunning' = it.running
                       /\ pending' = pending - 1 + 1
                       /\ consecFails' = 0
                       /\ lastOp' = [NoOp EXCEPT !.op = "frame", !.ran = TRUE,
                                        !.outcome = "ok", !.resched = TRUE,
                                        !.userStop = userStop, !.gap = gap,
                                        !.delta = deltaTime,
                                        !.accBefore = accumulator]
               /\ UNCHANGED <<updateFn, renderFn, starts>>

-----------------------------------------------------------------------------

StartAction == \E u \in StartArgs, r \in StartArgs : Start(u, r)
FrameAction == \E gap \in FrameGaps, script \in UpdateScripts,
                  rb \in RenderBehaviours : GameLoopFrame(gap, script, rb)

-----------------------------------------------------------------------------
(* EntityManager *)

gridCellSize == 50

Ids == 1..MaxIds
\* one live object per id, and one removed object that a cell still refers to
Refs == 1..(MaxIds + 1)
NoObject == [id |-> 0]

\* bounding boxes handed to the manager: inside one cell, across the cell
\* border at 0, across the border at 50 (twice), with negative size, with
\* zero size
Geometries ==
    {[x |-> 0,   y |-> 0,   width |-> 10,  height |-> 10],
     [x |-> -10, y |-> -10, width |-> 20,  height |-> 20],
     [x |-> 40,  y |-> 40,  width |-> 20,  height |-> 20],
     [x |-> 45,  y |-> 45,  width |-> 30,  height |-> 30],
     [x |-> 55,  y |-> 55,  width |-> -10, height |-> -10],
     [x |-> 50,  y |-> 50,  width |-> 0,   height |-> 0]}

\* type tag and active flag handed to the manager
Attributes ==
    {[type |-> "enemy", active |-> TRUE],
     [type |-> "enemy", active |-> FALSE]}

\* the fields of an entity apart from its id
FieldSets ==
    {[x |-> g.x, y |-> g.y, width |-> g.width, height |-> g.height,
      type |-> a.type, active |-> a.active] : g \in Geometries, a \in Attributes}

MakeEntity(id, f) ==
    [id |-> id, x |-> f.x, y |-> f.y, width |-> f.width, height |-> f.height,
     type |-> f.type, active |-> f.active]

\* a value with its typeof; val stands for the value where it has the type
\* the manager expects
JsValue(t, v) == [typeof |-> t, val |-> v]

\* the id '' (the ids 1..MaxIds are non-empty strings)
EmptyId == 0

\* an argument of addEntity: null, or an object with these properties
NullEntity ==
    [nullish |-> TRUE, id |-> JsValue("undefined", 0),
     x |-> JsValue("undefined", 0), y |-> JsValue("undefined", 0),
     width |-> JsValue("undefined", 0), height |-> JsValue("undefined", 0),
     type |-> JsValue("undefined", ""), active |-> JsValue("undefined", FALSE)]

\* arg: the id handed to removeEntity; list: the entities a query returned;
\* entity: the argument handed to addEntity; type: the type handed to
\* getEntitiesByType
NoEMOp == [op |-> "none", threw |-> FALSE, result |-> FALSE, arg |-> 0,
           list |-> {}, entity |-> NullEntity, type |-> ""]

EMInit ==
    /\ objects = [r \in Refs |-> NoObject]
    /\ entities = <<>>
    /\ entityTypeMap = <<>>
    /\ spatialGrid = {}
    /\ emOp = NoEMOp
    /\ collisions = <<>>

\* only the first cell of the entity
getCellKeysStartOnly(entity) ==
    {<<entity.x \div gridCellSize, entity.y \div gridCellSize>>}

\* getCellKeys(entity): the key "x,y" of every cell from the cell of the
\* top-left corner to the cell of the bottom-right corner
getCellKeys(entity) ==
    LET startX == entity.x \div gridCellSize
        startY == entity.y \div gridCellSize
        endX == (entity.x + entity.width) \div gridCellSize
        endY == (entity.y + entity.height) \div gridCellSize
    IN {<<cx, cy>> : cx \in startX..endX, cy \in startY..endY}

\* checkCollision(entity1, entity2)
checkCollision(entity1, entity2) ==
    /\ entity1.x < entity2.x + entity2.width
    /\ entity1.x + entity1.width > entity2.x
    /\ entity1.y < entity2.y + entity2.height
    /\ entity1.y + entity1.height > entity2.y

\* updateSpatialPosition(entity): the grid after adding object r with fields e
updateSpatialPosition(grid, r, e) ==
    grid \cup {<<key, r>> : key \in getCellKeys(e)}

\* removeSpatialPosition(entity): the grid after deleting object r from the
\* cells of the fields e
removeSpatialPosition(grid, r, e) ==
    grid \ {<<key, r>> : key \in getCellKeys(e)}

\* the type map after adding id to the set of type t
TypeMapAdd(tm, t, id) ==
    IF t \in DOMAIN tm
    THEN [tm EXCEPT ![t] = @ \cup {id}]
    ELSE [k \in DOMAIN tm \cup {t} |-> IF k = t THEN {id} ELSE tm[k]]

\* the type map after deleting id from the set of type t, if there is one
TypeMapDelete(tm, t, id) ==
    IF t \in DOMAIN tm THEN [tm EXCEPT ![t] = @ \ {id}] ELSE tm

MapSet(m, k, v) == [j \in DOMAIN m \cup {k} |-> IF j = k THEN v ELSE m[j]]
MapDelete(m, k) == [j \in DOMAIN m \ {k} |-> m[j]]

FreeRefs == {r \in Refs : objects[r] = NoObject}

\* the reference of a newly constructed object
NewRef(id) ==
    IF id \in FreeRefs THEN id
    ELSE CHOOSE q \in FreeRefs : \A p \in FreeRefs : q <= p

\* addEntity(entity), the entity being a new object with valid structure
AddEntity(id, f) ==
    IF id \in DOMAIN entities
    THEN \* throw new Error(`Entity with ID ... already exists`)
         /\ emOp' = [NoEMOp EXCEPT !.op = "add", !.threw = TRUE]
         /\ collisions' = <<>>
         /\ UNCHANGED <<objects, entities, entityTypeMap, spatialGrid>>
    ELSE /\ FreeRefs # {}
         /\ LET r == NewRef(id)
                e == MakeEntity(id, f)
            IN /\ objects' = [objects EXCEPT ![r] = e]
               /\ entities' = MapSet(entities, id, r)
               /\ entityTypeMap' = TypeMapAdd(entityTypeMap, e.type, id)
               /\ spatialGrid' = updateSpatialPosition(spatialGrid, r, e)
         /\ emOp' = [NoEMOp EXCEPT !.op = "add"]
         /\ collisions' = <<>>

\* an object with the id and the fields f, every property of the expected type
WellFormed(id, f) ==
    [nullish |-> FALSE, id |-> JsValue("string", id),
     x |-> JsValue("number", f.x), y |-> JsValue("number", f.y),
     width |-> JsValue("number", f.width),
     height |-> JsValue("number", f.height),
     type |-> JsValue("string", f.type),
     active |-> JsValue("boolean", f.active)]

\* the fields of the objects handed to addEntity in the runs that validate
ValidatedFieldSets ==
    {f \in FieldSets : f.width = 10 \/ (f.width = 20 /\ f.x = 40 /\ f.active)}

\* one object whose properties are all as expected
BaseEntity ==
    WellFormed(1, CHOOSE f \in ValidatedFieldSets : f.width = 10 /\ f.active)

\* arguments of addEntity: well-formed objects, null, and objects with one
\* property missing, of another type, or an empty string
Candidates ==
    {WellFormed(id, f) : id \in Ids, f \in ValidatedFieldSets}
    \cup {NullEntity}
    \cup {[BaseEntity EXCEPT !.id = v] :
              v \in {JsValue("string", EmptyId), JsValue("number", 1),
                     JsValue("undefined", 0)}}
    \cup {[BaseEntity EXCEPT !.x = v] :
              v \in {JsValue("string", 0), JsValue("undefined", 0)}}
    \cup {[BaseEntity EXCEPT !.y = JsValue("undefined", 0)],
          [BaseEntity EXCEPT !.width = JsValue("string", 10)],
          [BaseEntity EXCEPT !.height = JsValue("undefined", 0)]}
    \cup {[BaseEntity EXCEPT !.type = v] :
              v \in {JsValue("string", ""), JsValue("undefined", "")}}
    \cup {[BaseEntity EXCEPT !.active = v] :
              v \in {JsValue("undefined", FALSE), JsValue("string", TRUE)}}

\* validateEntity(entity)
validateEntity(entity) ==
    /\ ~entity.nullish
    /\ entity.id.typeof = "string"
    /\ entity.x.typeof = "number"
    /\ entity.y.typeof = "number"
    /\ entity.width.typeof = "number"
    /\ entity.height.typeof = "number"
    /\ entity.type.typeof = "string"
    /\ entity.active.typeof = "boolean"

\* the stored form of an object that passed validateEntity
StoredEntity(entity) ==
    [id |-> entity.id.val, x |-> entity.x.val, y |-> entity.y.val,
     width |-> entity.width.val, height |-> entity.height.val,
     type |-> entity.type.val, active |-> entity.active.val]

\* addEntity(entity), the entity being any argument
AddEntityValidated(entity) ==
    IF ~validateEntity(entity)
    THEN \* throw new Error('Invalid entity structure')
         /\ emOp' = [NoEMOp EXCEPT !.op = "add", !.threw = TRUE,
                                   !.entity = entity]
         /\ collisions' = <<>>
         /\ UNCHANGED <<objects, entities, entityTypeMap, spatialGrid>>
    ELSE IF entity.id.val \in DOMAIN entities
    THEN \* throw new Error(`Entity with ID ... already exists`)
         /\ emOp' = [NoEMOp EXCEPT !.op = "add", !.threw = TRUE,
                                   !.entity = entity]
         /\ collisions' = <<>>
         /\ UNCHANGED <<objects, entities, entityTypeMap, spatialGrid>>
    ELSE /\ FreeRefs # {}
         /\ LET r == NewRef(entity.id.val)
                e == StoredEntity(entity)
            IN /\ objects' = [objects EXCEPT ![r] = e]
               /\ entities' = MapSet(entities, e.id, r)
               /\ entityTypeMap' = TypeMapAdd(entityTypeMap, e.type, e.id)
               /\ spatialGrid' = updateSpatialPosition(spatialGrid, r, e)
         /\ emOp' = [NoEMOp EXCEPT !.op = "add", !.entity = entity]
         /\ collisions' = <<>>

\* no early return for an id that is not stored: entity.type is read from
\* undefined
RemoveEntityNoEarlyReturn(id) ==
    IF id \notin DOMAIN entities
    THEN /\ emOp' = [NoEMOp EXCEPT !.op = "remove", !.arg = id, !.threw = TRUE]
         /\ collisions' = <<>>
         /\ UNCHANGED <<objects, entities, entityTypeMap, spatialGrid>>
    ELSE LET r == entities[id]
             e == objects[r]
             grid == removeSpatialPosition(spatialGrid, r, e)
         IN /\ entityTypeMap' = TypeMapDelete(entityTypeMap, e.type, id)
            /\ spatialGrid' = grid
            /\ entities' = MapDelete(entities, id)
            /\ objects' = IF \E c \in grid : c[2] = r
                          THEN objects
                          ELSE [objects EXCEPT ![r] = NoObject]
            /\ emOp' = [NoEMOp EXCEPT !.op = "remove", !.result = TRUE,
                                      !.arg = id]
            /\ collisions' = <<>>

\* removeEntity(entityId)
RemoveEntity(id) ==
    IF id \notin DOMAIN entities
    THEN \* if (!entity) return false;
         /\ emOp' = [NoEMOp EXCEPT !.op = "remove", !.arg = id]
         /\ collisions' = <<>>
         /\ UNCHANGED <<objects, entities, entityTypeMap, spatialGrid>>
    ELSE LET r == entities[id]
             e == objects[r]
             grid == removeSpatialPosition(spatialGrid, r, e)
         IN /\ entityTypeMap' = TypeMapDelete(entityTypeMap, e.type, id)
            /\ spatialGrid' = grid
            /\ entities' = MapDelete(entities, id)
            \* the object is garbage once no cell refers to it
            /\ objects' = IF \E c \in grid : c[2] = r
                          THEN objects
                          ELSE [objects EXCEPT ![r] = NoObject]
            /\ emOp' = [NoEMOp EXCEPT !.op = "remove", !.result = TRUE,
                                      !.arg = id]
            /\ collisions' = <<>>

\* updateEntity(entity), the argument being an object other than the stored
\* one that carries the id and every other field
UpdateEntity(id, f) ==
    IF id \notin DOMAIN entities
    THEN \* throw new Error(`Entity ... not found`)
         /\ emOp' = [NoEMOp EXCEPT !.op = "update", !.threw = TRUE]
         /\ collisions' = <<>>
         /\ UNCHANGED <<objects, entities, entityTypeMap, spatialGrid>>
    ELSE LET r == entities[id]
             existingEntity == objects[r]
             merged == MakeEntity(id, f)
         IN /\ objects' = [objects EXCEPT ![r] = merged]
            /\ spatialGrid' =
                 updateSpatialPosition(
                     removeSpatialPosition(spatialGrid, r, existingEntity),
                     r, merged)
            /\ emOp' = [NoEMOp EXCEPT !.op = "update", !.arg = id]
            /\ collisions' = <<>>
            /\ UNCHANGED <<entities, entityTypeMap>>

\* updateEntity(entity), the argument being the stored entity object itself:
\* existingEntity is the argument, so the cells removed are those of its
\* current fields and Object.assign changes nothing
UpdateEntitySelf(id) ==
    IF id \notin DOMAIN entities
    THEN /\ emOp' = [NoEMOp EXCEPT !.op = "update", !.threw = TRUE]
         /\ collisions' = <<>>
         /\ UNCHANGED <<objects, entities, entityTypeMap, spatialGrid>>
    ELSE LET r == entities[id]
             existingEntity == objects[r]
         IN /\ spatialGrid' =
                 updateSpatialPosition(
                     removeSpatialPosition(spatialGrid, r, existingEntity),
                     r, existingEntity)
            /\ emOp' = [NoEMOp EXCEPT !.op = "update", !.arg = id]
            /\ collisions' = <<>>
            /\ UNCHANGED <<objects, entities, entityTypeMap>>

\* the cell keys of the grid and the objects of one cell
GridKeys(grid) == {c[1] : c \in grid}
CellMembers(grid, key) == {c[2] : c \in {d \in grid : d[1] = key}}

\* the pairs pushed while one cell is scanned: every two objects of the cell
\* that collide
CellCollisions(grid, key) ==
    {p \in SUBSET CellMembers(grid, key) :
        /\ Cardinality(p) = 2
        /\ \E a \in p, b \in p :
              a < b /\ checkCollision(objects[a], objects[b])}

\* detectCollisions(): the returned list, as the number of times each
\* unordered pair of objects occurs in it (one push per cell and pair)
DetectedList(grid) ==
    LET found == UNION {CellCollisions(grid, key) : key \in GridKeys(grid)}
    IN [p \in found |->
          Cardinality({key \in GridKeys(grid) : p \in CellCollisions(grid, key)})]

DetectCollisions ==
    /\ collisions' = DetectedList(spatialGrid)
    /\ emOp' = [NoEMOp EXCEPT !.op = "detect"]
    /\ UNCHANGED <<objects, entities, entityTypeMap, spatialGrid>>

\* the type tags of the runs that query by type
Types == {"enemy", "bullet"}

\* the entities of the runs that query by type: one box, either type, active
\* or not
TypedFieldSets ==
    {[x |-> 0, y |-> 0, width |-> 10, height |-> 10,
      type |-> t, active |-> a] : t \in Types, a \in BOOLEAN}

\* getEntitiesByType(type): the objects of the returned array
getEntitiesByType(type) ==
    IF type \notin DOMAIN entityTypeMap
    THEN {}
    ELSE {entities[id] :
             id \in {i \in entityTypeMap[type] :
                        i \in DOMAIN entities /\ objects[entities[i]].active}}

GetEntitiesByType(type) ==
    /\ emOp' = [NoEMOp EXCEPT !.op = "getEntitiesByType", !.type = type,
                              !.list = getEntitiesByType(type)]
    /\ collisions' = <<>>
    /\ UNCHANGED <<objects, entities, entityTypeMap, spatialGrid>>

\* the entities of the runs with in-place moves: active, with positive size,
\* inside one cell or across the cell border at 50
MovedFieldSets ==
    {f \in FieldSets : f.active /\ f.x >= 0 /\ f.width \in {10, 20}}

\* positions an entity object is moved to by its owner
Positions == {[x |-> f.x, y |-> f.y] : f \in MovedFieldSets}

\* a write of x and y on a stored entity object that does not go through the
\* manager: Entity.update, Entity.setPosition, enemy.x += ... in Game
MoveInPlace(id, pos) ==
    /\ id \in DOMAIN entities
    /\ objects' = [objects EXCEPT ![entities[id]].x = pos.x,
                                  ![entities[id]].y = pos.y]
    /\ emOp' = [NoEMOp EXCEPT !.op = "move"]
    /\ collisions' = <<>>
    /\ UNCHANGED <<entities, entityTypeMap, spatialGrid>>

AddAction == \E id \in Ids, f \in FieldSets : AddEntity(id, f)
MoveAction == \E id \in Ids, pos \in Positions : MoveInPlace(id, pos)
AddMovedAction == \E id \in Ids, f \in MovedFieldSets : AddEntity(id, f)
UpdateMovedAction == \E id \in Ids, f \in MovedFieldSets : UpdateEntity(id, f)
RemoveAction == \E id \in Ids : RemoveEntity(id)
UpdateAction == \E id \in Ids, f \in FieldSets : UpdateEntity(id, f)
AddTypedAction == \E id \in Ids, f \in TypedFieldSets : AddEntity(id, f)
UpdateTypedAction == \E id \in Ids, f \in TypedFieldSets : UpdateEntity(id, f)
GetByTypeAction == \E type \in Types : GetEntitiesByType(type)
UpdateSelfAction == \E id \in Ids : UpdateEntitySelf(id)
AddValidatedAction == \E entity \in Candidates : AddEntityValidated(entity)

-----------------------------------------------------------------------------
(* Entity and CollisionSystem *)

Slots == 1..MaxEnts
NoEntity == [id |-> 0]

\* boxes: one at the origin, one touching it at a corner, one overlapping it,
\* one apart from it, one with zero width
Boxes ==
    {[x |-> 0,  y |-> 0,  width |-> 10, height |-> 10],
     [x |-> 10, y |-> 10, width |-> 10, height |-> 10],
     [x |-> 5,  y |-> 5,  width |-> 10, height |-> 10],
     [x |-> 30, y |-> 0,  width |-> 10, height |-> 10],
     [x |-> 0,  y |-> 0,  width |-> 0,  height |-> 10]}

NumberConfig(g) ==
    [x |-> JsValue("number", g.x), y |-> JsValue("number", g.y),
     width |-> JsValue("number", g.width),
     height |-> JsValue("number", g.height)]

\* the config objects handed to new Entity(config): the boxes, a box with
\* negative height, a config without width, a config with a string height
Configs ==
    {NumberConfig(g) : g \in Boxes}
    \cup {NumberConfig([x |-> 0, y |-> 0, width |-> 10, height |-> -10]),
          [NumberConfig([x |-> 0, y |-> 0, width |-> 10, height |-> 10])
              EXCEPT !.width = JsValue("undefined", 0)],
          [NumberConfig([x |-> 0, y |-> 0, width |-> 10, height |-> 10])
              EXCEPT !.height = JsValue("string", 10)]}

NoCollidable ==
    [getBoundingBox |-> FALSE,
     box |-> [x |-> 0, y |-> 0, width |-> 0, height |-> 0]]

NoEntOp ==
    [op |-> "none", error |-> "none", result |-> FALSE,
     config |-> NumberConfig([x |-> 0, y |-> 0, width |-> 0, height |-> 0]),
     self |-> 0, other |-> 0,
     entity1 |-> NoCollidable, entity2 |-> NoCollidable,
     intersection |-> [x |-> 0, y |-> 0],
     \* the event and handler of on/off, the arguments of update,
     \* setVelocity and setPosition, the handlers called and the handlers
     \* whose exception was caught
     event |-> "", handler |-> "", deltaTime |-> 0,
     arg |-> [x |-> 0, y |-> 0], delivered |-> <<>>, caught |-> <<>>]

\* the events an Entity emits
Events == {"update", "velocityChange", "positionChange", "activate",
           "deactivate", "destroy"}

\* listeners: one that returns and one that throws
Handlers == {"returns", "throws"}

\* the handlers _emitEvent stops calling after the first one that throws
emitEventUntilThrow(e, event) ==
    LET hs == e.handlers[event]
        firstThrow == {i \in DOMAIN hs :
                         hs[i] = "throws" /\ \A j \in 1..(i - 1) : hs[j] # "throws"}
    IN IF firstThrow = {} THEN hs
       ELSE SubSeq(hs, 1, CHOOSE i \in firstThrow : TRUE)

\* _emitEvent(event): the handlers called, in the order of registration
emitEvent(e, event) == e.handlers[event]

\* the handlers whose exception _emitEvent caught and logged
CaughtOf(delivered) == SelectSeq(delivered, LAMBDA h : h = "throws")

\* config.speed || 0
ConfigSpeed(config) ==
    IF "speed" \in DOMAIN config THEN config.speed.val ELSE 0

EntInit ==
    /\ ents = [s \in Slots |-> NoEntity]
    /\ entOp = NoEntOp

\* _validateConfig(config): TRUE when it does not throw
validateConfig(config) ==
    \A v \in {config.x, config.y, config.width, config.height} :
        v.typeof = "number"

FreeSlots == {s \in Slots : ents[s] = NoEntity}

\* new Entity(config); the id stands for crypto.randomUUID(), the type takes
\* its default
Construct(config) ==
    IF ~validateConfig(config)
    THEN \* throw new Error(`Invalid ${prop}: must be a number`)
         /\ entOp' = [NoEntOp EXCEPT !.op = "construct", !.config = config,
                                     !.error = "Invalid"]
         /\ UNCHANGED ents
    ELSE /\ FreeSlots # {}
         /\ LET s == CHOOSE q \in FreeSlots : \A p \in FreeSlots : q <= p
            IN /\ ents' = [ents EXCEPT ![s] =
                    [id |-> s, x |-> config.x.val, y |-> config.y.val,
                     width |-> config.width.val, height |-> config.height.val,
                     speed |-> ConfigSpeed(config), type |-> "entity",
                     active |-> TRUE, visible |-> TRUE,
                     velocity |-> [x |-> 0, y |-> 0],
                     handlers |-> [ev \in Events |-> <<>>]]]
               /\ entOp' = [NoEntOp EXCEPT !.op = "construct",
                                           !.config = config, !.self = s]

Constructed == Slots \ FreeSlots

\* activate() and deactivate()
Activate(s) ==
    /\ s \in Constructed
    /\ ents' = [ents EXCEPT ![s].active = TRUE]
    /\ LET delivered == emitEvent(ents[s], "activate")
       IN entOp' = [NoEntOp EXCEPT !.op = "activate", !.self = s,
                                   !.delivered = delivered,
                                   !.caught = CaughtOf(delivered)]

Deactivate(s) ==
    /\ s \in Constructed
    /\ ents' = [ents EXCEPT ![s].active = FALSE]
    /\ LET delivered == emitEvent(ents[s], "deactivate")
       IN entOp' = [NoEntOp EXCEPT !.op = "deactivate", !.self = s,
                                   !.delivered = delivered,
                                   !.caught = CaughtOf(delivered)]

\* on(event, handler): a Set keeps one entry per handler, in insertion order
On(s, event, handler) ==
    /\ s \in Constructed
    /\ LET hs == ents[s].handlers[event]
           registered == \E i \in DOMAIN hs : hs[i] = handler
           total == Cardinality({<<ev, i>> \in Events \X (1..MaxHandlers) :
                                    i \in DOMAIN ents[s].handlers[ev]})
       IN /\ registered \/ total < MaxHandlers
          /\ ents' = IF registered THEN ents
                     ELSE [ents EXCEPT ![s].handlers[event] = Append(hs, handler)]
    /\ entOp' = [NoEntOp EXCEPT !.op = "on", !.self = s, !.event = event,
                                !.handler = handler]

\* off(event, handler)
Off(s, event, handler) ==
    /\ s \in Constructed
    /\ ents' = [ents EXCEPT ![s].handlers[event] =
                    SelectSeq(@, LAMBDA h : h # handler)]
    /\ entOp' = [NoEntOp EXCEPT !.op = "off", !.self = s, !.event = event,
                                !.handler = handler]

\* update moves an entity whatever its active flag
updateRunsAlways(e) == TRUE

\* if (!this.active) return; of update
updateRuns(e) == e.active

\* update(deltaTime)
EntityUpdate(s, deltaTime) ==
    /\ s \in Constructed
    /\ LET e == ents[s]
           x == e.x + (e.velocity.x * e.speed * deltaTime) \div 1000
           y == e.y + (e.velocity.y * e.speed * deltaTime) \div 1000
       IN IF ~updateRuns(e)
          THEN /\ UNCHANGED ents
               /\ entOp' = [NoEntOp EXCEPT !.op = "update", !.self = s,
                                           !.deltaTime = deltaTime]
          ELSE /\ x <= MaxX /\ y <= MaxX
               /\ ents' = [ents EXCEPT ![s].x = x, ![s].y = y]
               /\ LET delivered == emitEvent(e, "update")
                  IN entOp' = [NoEntOp EXCEPT !.op = "update", !.self = s,
                                              !.deltaTime = deltaTime,
                                              !.delivered = delivered,
                                              !.caught = CaughtOf(delivered)]

\* setVelocity(x, y)
SetVelocity(s, v) ==
    /\ s \in Constructed
    /\ ents' = [ents EXCEPT ![s].velocity = v]
    /\ LET delivered == emitEvent(ents[s], "velocityChange")
       IN entOp' = [NoEntOp EXCEPT !.op = "setVelocity", !.self = s,
                                   !.arg = v, !.delivered = delivered,
                                   !.caught = CaughtOf(delivered)]

\* setPosition(x, y)
SetPosition(s, pos) ==
    /\ s \in Constructed
    /\ ents' = [ents EXCEPT ![s].x = pos.x, ![s].y = pos.y]
    /\ LET delivered == emitEvent(ents[s], "positionChange")
       IN entOp' = [NoEntOp EXCEPT !.op = "setPosition", !.self = s,
                                   !.arg = pos, !.delivered = delivered,
                                   !.caught = CaughtOf(delivered)]

\* destroy(): the handlers are cleared, then 'destroy' is emitted
Destroy(s) ==
    /\ s \in Constructed
    /\ LET cleared == [ents[s] EXCEPT !.active = FALSE, !.visible = FALSE,
                                      !.handlers = [ev \in Events |-> <<>>]]
           delivered == emitEvent(cleared, "destroy")
       IN /\ ents' = [ents EXCEPT ![s] = cleared]
          /\ entOp' = [NoEntOp EXCEPT !.op = "destroy", !.self = s,
                                      !.delivered = delivered,
                                      !.caught = CaughtOf(delivered)]

\* getBounds()
getBounds(e) ==
    [left |-> e.x, right |-> e.x + e.width,
     top |-> e.y, bottom |-> e.y + e.height]

\* isColliding(other) of the entity self
isColliding(self, other) ==
    IF ~self.active \/ ~other.active
    THEN FALSE
    ELSE LET bounds == getBounds(self)
             otherBounds == getBounds(other)
         IN ~(\/ bounds.left >= otherBounds.right
              \/ bounds.right <= otherBounds.left
              \/ bounds.top >= otherBounds.bottom
              \/ bounds.bottom <= otherBounds.top)

IsColliding(s, o) ==
    /\ s \in Constructed /\ o \in Constructed
    /\ entOp' = [NoEntOp EXCEPT !.op = "isColliding", !.self = s, !.other = o,
                                !.result = isColliding(ents[s], ents[o])]
    /\ UNCHANGED ents

\* the first argument, whatever the second
MaxFirst(a, b) == a

\* Math.max(a, b)
Max(a, b) == IF a > b THEN a ELSE b

\* the arguments of CollisionSystem.checkCollision: objects that provide
\* getBoundingBox(), and the Entity objects, which do not
BoxObjects == {[getBoundingBox |-> TRUE, box |-> g] : g \in Boxes}

EntityObjects ==
    {[getBoundingBox |-> FALSE,
      box |-> [x |-> ents[s].x, y |-> ents[s].y,
               width |-> ents[s].width, height |-> ents[s].height]] :
        s \in Constructed}

\* boxes that only touch do not collide
collisionStrict(e1, e2) ==
    ~(\/ e1.x + e1.width <= e2.x
      \/ e2.x + e2.width <= e1.x
      \/ e1.y + e1.height <= e2.y
      \/ e2.y + e2.height <= e1.y)

\* const collision = !(...) of CollisionSystem.checkCollision
collision(e1, e2) ==
    ~(\/ e1.x + e1.width < e2.x
      \/ e2.x + e2.width < e1.x
      \/ e1.y + e1.height < e2.y
      \/ e2.y + e2.height < e1.y)

\* CollisionSystem.checkCollision(entity1, entity2)
CheckCollision(entity1, entity2) ==
    /\ IF ~entity1.getBoundingBox \/ ~entity2.getBoundingBox
       THEN \* TypeError: entity.getBoundingBox is not a function
            entOp' = [NoEntOp EXCEPT !.op = "checkCollision",
                                    !.entity1 = entity1, !.entity2 = entity2,
                                    !.error = "TypeError"]
       ELSE LET e1 == entity1.box
                e2 == entity2.box
            IN IF ~collision(e1, e2)
               THEN entOp' = [NoEntOp EXCEPT !.op = "checkCollision",
                                            !.entity1 = entity1,
                                            !.entity2 = entity2]
               ELSE entOp' = [NoEntOp EXCEPT !.op = "checkCollision",
                                            !.entity1 = entity1,
                                            !.entity2 = entity2,
                                            !.result = TRUE,
                                            !.intersection =
                                                [x |-> Max(e1.x, e2.x),
                                                 y |-> Max(e1.y, e2.y)]]
    /\ UNCHANGED ents

\* the config of the entity that is observed by listeners: speed 60 per second
MovingConfig ==
    [x |-> JsValue("number", 0), y |-> JsValue("number", 0),
     width |-> JsValue("number", 10), height |-> JsValue("number", 10),
     speed |-> JsValue("number", 60)]

\* arguments of update (ms), setVelocity and setPosition
DeltaTimes == {0, 50}
Velocities == {[x |-> 0, y |-> 0], [x |-> 1, y |-> 0]}
SetPositions == {[x |-> 5, y |-> 5]}

ConstructAction == \E config \in Configs : Construct(config)
ConstructMovingAction == Constructed = {} /\ Construct(MovingConfig)
OnAction ==
    \E s \in Slots, event \in Events, handler \in Handlers :
        On(s, event, handler)
OffAction ==
    \E s \in Slots, event \in Events, handler \in Handlers :
        Off(s, event, handler)
EntityUpdateAction ==
    \E s \in Slots, deltaTime \in DeltaTimes : EntityUpdate(s, deltaTime)
SetVelocityAction == \E s \in Slots, v \in Velocities : SetVelocity(s, v)
SetPositionAction == \E s \in Slots, pos \in SetPositions : SetPosition(s, pos)
DestroyAction == \E s \in Slots : Destroy(s)
ActivateAction == \E s \in Slots : Activate(s)
DeactivateAction == \E s \in Slots : Deactivate(s)
IsCollidingAction == \E s \in Slots, o \in Slots : IsColliding(s, o)
CheckCollisionAction ==
    \E entity1 \in BoxObjects \cup EntityObjects,
       entity2 \in BoxObjects \cup EntityObjects :
        CheckCollision(entity1, entity2)

-----------------------------------------------------------------------------
(* CollisionSystem.update *)

worldBounds == [x |-> 0, y |-> 0, width |-> 800, height |-> 600]
quadTreeCapacity == 4

\* the objects of the lists handed to update: two overlapping enemies, a
\* projectile that touches the first and overlaps the second, a player apart
\* from all, an enemy outside the world, and an object that has a box but no
\* getBoundingBox()
ListObjects ==
    {[type |-> "enemy", getBoundingBox |-> TRUE,
      x |-> 0, y |-> 0, width |-> 10, height |-> 10],
     [type |-> "enemy", getBoundingBox |-> TRUE,
      x |-> 5, y |-> 5, width |-> 10, height |-> 10],
     [type |-> "projectile", getBoundingBox |-> TRUE,
      x |-> 10, y |-> 10, width |-> 10, height |-> 10],
     [type |-> "player", getBoundingBox |-> TRUE,
      x |-> 30, y |-> 0, width |-> 10, height |-> 10],
     [type |-> "enemy", getBoundingBox |-> TRUE,
      x |-> -5, y |-> 0, width |-> 10, height |-> 10],
     [type |-> "player", getBoundingBox |-> FALSE,
      x |-> 0, y |-> 0, width |-> 10, height |-> 10]}

\* the lists handed to update: no object occurs twice
EntityLists ==
    {l \in UNION {[1..n -> ListObjects] : n \in 0..MaxListLen} :
        \A i \in DOMAIN l, j \in DOMAIN l : i # j => l[i] # l[j]}

\* before: the number of entities in the root node when the call began
NoCsOp == [op |-> "none", list |-> <<>>, error |-> "none", results |-> <<>>,
           before |-> 0]

CsInit ==
    /\ quadTree = <<>>
    /\ csOp = NoCsOp

\* QuadTreeNode.contains(entity) of the root node
contains(entity) ==
    /\ entity.x >= worldBounds.x
    /\ entity.x <= worldBounds.x + worldBounds.width
    /\ entity.y >= worldBounds.y
    /\ entity.y <= worldBounds.y + worldBounds.height

\* the root node after entities.forEach(entity => this.quadTree.insert(entity))
\* on a new tree; the root holds up to quadTreeCapacity entities before it is
\* subdivided
Inserted(list) == SelectSeq(list, contains)

\* the index pairs of the loops over i and over j from 0 in both
AllOrderedPairs(n) ==
    SelectSeq([k \in 1..(n * n) |-> <<((k - 1) \div n) + 1, ((k - 1) % n) + 1>>],
              LAMBDA p : p[1] # p[2])

\* the index pairs i < j in the order of the two loops of update
IndexPairs(n) ==
    SelectSeq([k \in 1..(n * n) |-> <<((k - 1) \div n) + 1, ((k - 1) % n) + 1>>],
              LAMBDA p : p[1] < p[2])

\* the result checkCollision returns for a colliding pair
CollisionResult(entity1, entity2) ==
    [collided |-> TRUE, entity1 |-> entity1, entity2 |-> entity2,
     intersection |-> [x |-> Max(entity1.x, entity2.x),
                       y |-> Max(entity1.y, entity2.y)]]

\* the collisions array of update(entities) when no checkCollision throws
Collisions(list) ==
    LET hits == SelectSeq(IndexPairs(Len(list)),
                          LAMBDA p : collision(list[p[1]], list[p[2]]))
    IN [k \in DOMAIN hits |->
           CollisionResult(list[hits[k][1]], list[hits[k][2]])]

\* this.initialize()
Initialize ==
    /\ quadTree' = <<>>
    /\ csOp' = [NoCsOp EXCEPT !.op = "initialize", !.before = Len(quadTree)]

\* CollisionSystem.update(entities)
CsUpdate(list) ==
    /\ Len(list) <= quadTreeCapacity
    /\ quadTree' = Inserted(list)
    /\ IF Len(list) >= 2 /\ \E i \in DOMAIN list : ~list[i].getBoundingBox
       THEN \* TypeError: entity.getBoundingBox is not a function
            csOp' = [NoCsOp EXCEPT !.op = "update", !.list = list,
                                  !.before = Len(quadTree), !.error = "TypeError"]
       ELSE csOp' = [NoCsOp EXCEPT !.op = "update", !.list = list,
                                  !.before = Len(quadTree),
                                  !.results = Collisions(list)]

CsUpdateAction == \E list \in EntityLists : CsUpdate(list)

-----------------------------------------------------------------------------
(* ObjectPool *)

NoOptions == [initialSize |-> 0, expandSize |-> 0, maxSize |-> -1]

\* the options of the pools: valid for _validateOptions, with a size limit
\* (reached one by one, or overshot by the expansion step) and without
Options ==
    {[initialSize |-> 1, expandSize |-> 1, maxSize |-> 2],
     [initialSize |-> 1, expandSize |-> 2, maxSize |-> 2],
     [initialSize |-> 0, expandSize |-> 1, maxSize |-> 0]}

\* the objects: 1..created have been made by the factory, the others are
\* foreign to it
PoolObjects == 1..(MaxObjects + 1)

NoPoolOp == [op |-> "none", threw |-> FALSE, object |-> 0]

PoolInit ==
    /\ poolOptions = NoOptions
    /\ poolAvailable = <<>>
    /\ poolActive = {}
    /\ poolMetrics = [allocated |-> 0, maxUsed |-> 0]
    /\ created = 0
    /\ poolOp = NoPoolOp

\* _validateOptions(options): TRUE when it does not throw
validateOptions(options) ==
    /\ options.initialSize >= 0
    /\ options.expandSize >= 1
    /\ options.maxSize = 0 \/ options.maxSize >= options.initialSize

\* the factory returns one and the same object at every call
expandPoolSameObject(count) == [i \in 1..count |-> 1]

\* the objects _expandPool(count) pushes: the factory makes a new object at
\* each call
expandPool(count) == [i \in 1..count |-> created + i]

\* new ObjectPool(options)
NewPool(options) ==
    /\ poolOptions = NoOptions
    /\ validateOptions(options)
    /\ created + options.initialSize <= MaxObjects
    /\ poolOptions' = options
    /\ poolAvailable' = expandPool(options.initialSize)
    /\ poolActive' = {}
    /\ poolMetrics' = [allocated |-> options.initialSize, maxUsed |-> 0]
    /\ created' = created + options.initialSize
    /\ poolOp' = [NoPoolOp EXCEPT !.op = "new"]

\* acquire()
Acquire ==
    /\ poolOptions # NoOptions
    /\ IF /\ Len(poolAvailable) = 0
          /\ poolOptions.maxSize # 0
          /\ Cardinality(poolActive) >= poolOptions.maxSize
       THEN \* throw new Error('Object pool maximum size reached')
            /\ poolOp' = [NoPoolOp EXCEPT !.op = "acquire", !.threw = TRUE]
            /\ UNCHANGED <<poolOptions, poolAvailable, poolActive,
                           poolMetrics, created>>
       ELSE LET count == IF Len(poolAvailable) = 0
                         THEN poolOptions.expandSize ELSE 0
                expanded == poolAvailable \o expandPool(count)
                object == expanded[Len(expanded)]
            IN /\ created + count <= MaxObjects
               /\ poolAvailable' = SubSeq(expanded, 1, Len(expanded) - 1)
               /\ poolActive' = poolActive \cup {object}
               /\ poolMetrics' =
                     [allocated |-> poolMetrics.allocated + count,
                      maxUsed |-> Max(poolMetrics.maxUsed,
                                      Cardinality(poolActive \cup {object}))]
               /\ created' = created + count
               /\ poolOp' = [NoPoolOp EXCEPT !.op = "acquire",
                                             !.object = object]
               /\ UNCHANGED poolOptions

\* release accepts every object
releasableAlways(object) == TRUE

\* this._active.has(object)
releasable(object) == object \in poolActive

\* release(object); the reset function returns normally
Release(object) ==
    /\ poolOptions # NoOptions
    /\ IF ~releasable(object)
       THEN \* throw new Error('Attempting to release an object not from this pool')
            /\ poolOp' = [NoPoolOp EXCEPT !.op = "release", !.threw = TRUE,
                                          !.object = object]
            /\ UNCHANGED <<poolOptions, poolAvailable, poolActive,
                           poolMetrics, created>>
       ELSE /\ poolActive' = poolActive \ {object}
            /\ poolAvailable' = Append(poolAvailable, object)
            /\ poolOp' = [NoPoolOp EXCEPT !.op = "release", !.object = object]
            /\ UNCHANGED <<poolOptions, poolMetrics, created>>

\* clear()
Clear ==
    /\ poolOptions # NoOptions
    /\ created + poolOptions.initialSize <= MaxObjects
    /\ poolAvailable' = expandPool(poolOptions.initialSize)
    /\ poolActive' = {}
    /\ poolMetrics' = [allocated |-> poolOptions.initialSize, maxUsed |-> 0]
    /\ created' = created + poolOptions.initialSize
    /\ poolOp' = [NoPoolOp EXCEPT !.op = "clear"]
    /\ UNCHANGED poolOptions

NewPoolAction == \E options \in Options : NewPool(options)
ReleaseAction == \E object \in PoolObjects : Release(object)

-----------------------------------------------------------------------------
(* PerformanceMonitor *)

\* options.fpsBufferSize of the monitor
fpsBufferSize == 2

\* stands for Number.MAX_VALUE
MAX_VALUE == 1000000

\* the fields after the constructor and after reset()
PerfFresh ==
    [frameTimes |-> [i \in 0..(fpsBufferSize - 1) |-> 0], frameIndex |-> 0,
     frameStartTime |-> 0, lastFrameTime |-> 0, frameCount |-> 0,
     minFrameTime |-> MAX_VALUE, maxFrameTime |-> 0, totalFrameTime |-> 0]

NoPerfOp == [op |-> "none", threw |-> FALSE]

PerfInit ==
    /\ perf = PerfFresh
    /\ perfNow = 0
    /\ perfOpen = FALSE
    /\ perfCompleted = 0
    /\ perfOp = NoPerfOp

\* the clock advances
PerfTick ==
    /\ perfNow < MaxClock
    /\ perfNow' = perfNow + 1
    /\ perfOp' = [NoPerfOp EXCEPT !.op = "tick"]
    /\ UNCHANGED <<perf, perfOpen, perfCompleted>>

\* startFrame()
StartFrame ==
    IF perf.frameStartTime # 0
    THEN \* throw new Error('startFrame called before ending previous frame')
         /\ perfOp' = [NoPerfOp EXCEPT !.op = "startFrame", !.threw = TRUE]
         /\ UNCHANGED <<perf, perfNow, perfOpen, perfCompleted>>
    ELSE /\ perf' = [perf EXCEPT !.frameStartTime = perfNow]
         /\ perfOpen' = TRUE
         /\ perfOp' = [NoPerfOp EXCEPT !.op = "startFrame"]
         /\ UNCHANGED <<perfNow, perfCompleted>>

\* endFrame()
EndFrame ==
    IF perf.frameStartTime = 0
    THEN \* throw new Error('endFrame called before startFrame')
         /\ perfOp' = [NoPerfOp EXCEPT !.op = "endFrame", !.threw = TRUE]
         /\ UNCHANGED <<perf, perfNow, perfOpen, perfCompleted>>
    ELSE /\ perf.frameCount < MaxFrames
         /\ LET frameTime == perfNow - perf.frameStartTime
            IN perf' = [perf EXCEPT
                          !.lastFrameTime = frameTime,
                          !.minFrameTime = Min(perf.minFrameTime, frameTime),
                          !.maxFrameTime = Max(perf.maxFrameTime, frameTime),
                          !.frameTimes[perf.frameIndex] = frameTime,
                          !.frameIndex = (perf.frameIndex + 1) % fpsBufferSize,
                          !.frameStartTime = 0,
                          !.frameCount = perf.frameCount + 1]
         /\ perfOpen' = FALSE
         /\ perfCompleted' = perfCompleted + 1
         /\ perfOp' = [NoPerfOp EXCEPT !.op = "endFrame"]
         /\ UNCHANGED perfNow

\* reset()
PerfReset ==
    /\ perf' = PerfFresh
    /\ perfOpen' = FALSE
    /\ perfCompleted' = 0
    /\ perfOp' = [NoPerfOp EXCEPT !.op = "reset"]
    /\ UNCHANGED perfNow

-----------------------------------------------------------------------------
(* Game: state, keyboard input and pause *)

\* the keys of this.input and the key codes that set them
Keys == {"left", "right", "space", "escape"}

\* what the part of update() after handleInput does to the game state: it
\* returns, it ends the game (gameOver()), or it throws
Rests == {"ok", "gameOver", "throws"}

NoGameOp == [op |-> "none", advanced |-> FALSE, threw |-> FALSE]

\* the state after new Game(): the constructor calls startGame()
GameInit ==
    /\ gameState = [current |-> "PLAYING", paused |-> FALSE]
    /\ input = [k \in Keys |-> FALSE]
    /\ pausedByKey = FALSE
    /\ gameOp = NoGameOp

\* the keydown and keyup listeners
KeyDown(k) ==
    /\ input' = [input EXCEPT ![k] = TRUE]
    /\ gameOp' = [NoGameOp EXCEPT !.op = "keydown"]
    /\ UNCHANGED <<gameState, pausedByKey>>

KeyUp(k) ==
    /\ input' = [input EXCEPT ![k] = FALSE]
    /\ gameOp' = [NoGameOp EXCEPT !.op = "keyup"]
    /\ UNCHANGED <<gameState, pausedByKey>>

\* if (this.state.current !== GAME_STATES.PLAYING || this.state.paused) return;
updateReturnsEarly(state) == state.current # "PLAYING" \/ state.paused

\* Game.update(deltaTime): handleInput toggles paused on input.escape; rest is
\* the outcome of the entity updates, the collision handling and the
\* win/lose check that follow
GameUpdate(rest) ==
    IF updateReturnsEarly(gameState)
    THEN /\ gameOp' = [NoGameOp EXCEPT !.op = "update"]
         /\ UNCHANGED <<gameState, input, pausedByKey>>
    ELSE LET paused == IF input.escape THEN ~gameState.paused
                                       ELSE gameState.paused
         IN /\ gameState' =
                  [current |-> IF rest = "gameOver" THEN "GAME_OVER"
                               ELSE gameState.current,
                   paused |-> paused]
            /\ input' = [input EXCEPT !.escape = FALSE]
            /\ pausedByKey' = IF input.escape THEN paused ELSE pausedByKey
            /\ gameOp' = [NoGameOp EXCEPT !.op = "update", !.advanced = TRUE,
                                          !.threw = (rest = "throws")]

\* togglePause()
TogglePause ==
    /\ gameState' = [gameState EXCEPT !.paused = ~gameState.paused]
    /\ pausedByKey' = FALSE
    /\ gameOp' = [NoGameOp EXCEPT !.op = "togglePause"]
    /\ UNCHANGED input

\* startGame()
StartGame ==
    /\ gameState' = [gameState EXCEPT !.current = "PLAYING"]
    /\ gameOp' = [NoGameOp EXCEPT !.op = "startGame"]
    /\ UNCHANGED <<input, pausedByKey>>

KeyDownAction == \E k \in Keys : KeyDown(k)
KeyUpAction == \E k \in Keys : KeyUp(k)
GameUpdateAction == \E rest \in Rests : GameUpdate(rest)

-----------------------------------------------------------------------------
(* Game: lives, levels, the enemy formation and the collision handling.  The
   positions of the player and of the projectiles and the registry of
   this.entityManager are not part of this view. *)

CANVAS_WIDTH == 800
CANVAS_HEIGHT == 600
INITIAL_LIVES == 3
ROWS == 5
COLUMNS == 11
SPACING_HORIZONTAL == 50
SPACING_VERTICAL == 40
DROP_DISTANCE == 20

\* the Entity made by createPlayer(); an Entity has getBounds() and no
\* getBoundingBox()
Player ==
    [type |-> "PLAYER", x |-> (CANVAS_WIDTH \div 2) - 16,
     y |-> CANVAS_HEIGHT - 50, width |-> 32, height |-> 32, active |-> TRUE,
     getBoundingBox |-> FALSE]

\* an Entity made by createEnemyBullet(enemy) for the enemy created first
EnemyBullet ==
    [type |-> "ENEMY_PROJECTILE", x |-> 100 + 16 - 1, y |-> 100 + 32,
     width |-> 2, height |-> 10, active |-> TRUE, getBoundingBox |-> FALSE]

\* this.enemies after createEnemies(): row by row, column by column
createEnemies ==
    [k \in 1..(ROWS * COLUMNS) |->
        [type |-> "ENEMY_BASIC",
         x |-> 100 + ((k - 1) % COLUMNS) * SPACING_HORIZONTAL,
         y |-> 100 + ((k - 1) \div COLUMNS) * SPACING_VERTICAL,
         width |-> 32, height |-> 32, active |-> TRUE,
         getBoundingBox |-> FALSE]]

NoBattleOp == [op |-> "none", threw |-> FALSE, movedDown |-> FALSE]

\* the state after new Game(): startGame() sets the lives and the level and
\* creates the player and the enemies
BattleInit ==
    /\ lives = INITIAL_LIVES
    /\ level = 1
    /\ enemies = createEnemies
    /\ enemyDirection = 1
    /\ battleOp = NoBattleOp

ActiveEnemies(es) == SelectSeq(es, LAMBDA e : e.active)

\* only the right edge turns the formation
hitsEdgeRightOnly(newX, enemy) == newX >= CANVAS_WIDTH - enemy.width

\* newX <= 0 || newX >= CANVAS.WIDTH - enemy.width
hitsEdge(newX, enemy) == newX <= 0 \/ newX >= CANVAS_WIDTH - enemy.width

\* shouldMoveDown after the first forEach of moveEnemies()
shouldMoveDown(es, dir) ==
    \E k \in DOMAIN es :
        /\ es[k].active
        /\ hitsEdge(es[k].x + SPACING_HORIZONTAL * dir, es[k])

\* moveEnemies(): this.enemies and this.enemyDirection after the call
moveEnemies(es, dir) ==
    IF shouldMoveDown(es, dir)
    THEN [enemyDirection |-> dir * (-1),
          enemies |-> [k \in DOMAIN es |->
                         IF es[k].active
                         THEN [es[k] EXCEPT !.y = @ + DROP_DISTANCE]
                         ELSE es[k]]]
    ELSE [enemyDirection |-> dir,
          enemies |-> [k \in DOMAIN es |->
                         IF es[k].active
                         THEN [es[k] EXCEPT !.x = @ + SPACING_HORIZONTAL * dir]
                         ELSE es[k]]]

\* the formation is moved while a drop keeps its enemies above MaxY
CanMove(es, dir) ==
    shouldMoveDown(es, dir)
    => \A k \in DOMAIN es : es[k].active => es[k].y + DROP_DISTANCE <= MaxY

MoveEnemies ==
    /\ CanMove(enemies, enemyDirection)
    /\ LET moved == moveEnemies(enemies, enemyDirection)
       IN /\ enemies' = moved.enemies
          /\ enemyDirection' = moved.enemyDirection
    /\ battleOp' = [NoBattleOp EXCEPT
                       !.op = "moveEnemies",
                       !.movedDown = shouldMoveDown(enemies, enemyDirection)]
    /\ UNCHANGED <<lives, level, gameVars>>

\* the x of the active enemies
ActiveXs(es) == {es[k].x : k \in {j \in DOMAIN es : es[j].active}}

\* enemy.deactivate() on every enemy of the outermost column at x, as
\* handleCollision does to an enemy hit by a player projectile
DeactivateColumn(x) ==
    /\ x \in ActiveXs(enemies)
    /\ \/ \A other \in ActiveXs(enemies) : x <= other
       \/ \A another \in ActiveXs(enemies) : x >= another
    /\ ROWS * COLUMNS - Len(ActiveEnemies(enemies)) < MaxDestroyed * ROWS
    /\ enemies' = [k \in DOMAIN enemies |->
                     IF enemies[k].active /\ enemies[k].x = x
                     THEN [enemies[k] EXCEPT !.active = FALSE]
                     ELSE enemies[k]]
    /\ battleOp' = [NoBattleOp EXCEPT !.op = "deactivate"]
    /\ UNCHANGED <<lives, level, enemyDirection, gameVars>>

\* cleanupEntities(): there are no projectiles
CleanupEntities ==
    /\ enemies' = ActiveEnemies(enemies)
    /\ battleOp' = [NoBattleOp EXCEPT !.op = "cleanupEntities"]
    /\ UNCHANGED <<lives, level, enemyDirection, gameVars>>

\* nextLevel()
NextLevel ==
    /\ level < MaxLevel
    /\ level' = level + 1
    /\ enemies' = createEnemies
    /\ battleOp' = [NoBattleOp EXCEPT !.op = "nextLevel"]
    /\ UNCHANGED <<lives, enemyDirection, gameVars>>

\* the list handleCollisions() hands to collisionSystem.update
allEntities(es) == <<Player>> \o ActiveEnemies(es)

\* collisionSystem.update(allEntities) throws: checkCollision calls
\* getBoundingBox() on the first two entities of the list
sweepThrows(list) ==
    Len(list) >= 2 /\ \E i \in DOMAIN list : ~list[i].getBoundingBox

\* checkGameConditions(): some active enemy reached the player
enemyReachedBottom(es) ==
    \E k \in DOMAIN es : es[k].active /\ es[k].y + es[k].height >= Player.y

\* Game.update(deltaTime) with no key but Escape held and no projectile in
\* flight: handleInput, updateEnemies (moveDue: enemyMoveTimer reached 1000),
\* handleCollisions, cleanupEntities and checkGameConditions
Update(moveDue) ==
    /\ ~input.left /\ ~input.right /\ ~input.space
    /\ IF updateReturnsEarly(gameState)
       THEN /\ battleOp' = [NoBattleOp EXCEPT !.op = "update"]
            /\ UNCHANGED <<gameState, input, pausedByKey, gameOp, lives,
                           level, enemies, enemyDirection>>
       ELSE LET paused == IF input.escape THEN ~gameState.paused
                                          ELSE gameState.paused
                moved == IF moveDue THEN moveEnemies(enemies, enemyDirection)
                         ELSE [enemyDirection |-> enemyDirection,
                               enemies |-> enemies]
                threw == sweepThrows(allEntities(moved.enemies))
                cleaned == ActiveEnemies(moved.enemies)
                levelUp == Len(cleaned) = 0
                checked == IF levelUp THEN createEnemies ELSE cleaned
            IN /\ moveDue => CanMove(enemies, enemyDirection)
               /\ ~threw /\ levelUp => level < MaxLevel
               /\ input' = [input EXCEPT !.escape = FALSE]
               /\ pausedByKey' = IF input.escape THEN paused ELSE pausedByKey
               /\ enemyDirection' = moved.enemyDirection
               /\ enemies' = IF threw THEN moved.enemies ELSE checked
               /\ level' = IF ~threw /\ levelUp THEN level + 1 ELSE level
               /\ gameState' =
                     [current |-> IF ~threw /\ enemyReachedBottom(checked)
                                  THEN "GAME_OVER" ELSE gameState.current,
                      paused |-> paused]
               /\ battleOp' = [NoBattleOp EXCEPT
                                  !.op = "update", !.threw = threw,
                                  !.movedDown =
                                      moveDue /\ shouldMoveDown(enemies,
                                                                enemyDirection)]
               /\ UNCHANGED <<gameOp, lives>>

\* the player is one of the two entities and the other has the type t
hitsPlayer(entity1, entity2, t) ==
    \/ entity1.type = "PLAYER" /\ entity2.type = t
    \/ entity1.type = t /\ entity2.type = "PLAYER"

\* handleCollision(entity1, entity2) for the player, an enemy and an enemy
\* projectile: lives--, then gameOver() or resetPlayerPosition()
HandleCollision(entity1, entity2) ==
    /\ INITIAL_LIVES - lives < MaxHits
    /\ LET hit == \/ hitsPlayer(entity1, entity2, "ENEMY_PROJECTILE")
                  \/ hitsPlayer(entity1, entity2, "ENEMY_BASIC")
       IN /\ lives' = IF hit THEN lives - 1 ELSE lives
          /\ gameState' = IF hit /\ lives - 1 <= 0
                          THEN [gameState EXCEPT !.current = "GAME_OVER"]
                          ELSE gameState
    /\ battleOp' = [NoBattleOp EXCEPT !.op = "handleCollision"]
    /\ UNCHANGED <<input, pausedByKey, gameOp, level, enemies,
                   enemyDirection>>

\* the pairs handed to handleCollision
CollisionPairs ==
    {<<Player, enemies[1]>>, <<enemies[1], Player>>,
     <<Player, EnemyBullet>>, <<EnemyBullet, Player>>,
     <<enemies[1], enemies[2]>>}

DeactivateColumnAction == \E x \in ActiveXs(enemies) : DeactivateColumn(x)
UpdateTickAction == \E moveDue \in BOOLEAN : Update(moveDue)
HandleCollisionAction ==
    /\ Len(enemies) >= 2
    /\ \E pair \in CollisionPairs : HandleCollision(pair[1], pair[2])

-----------------------------------------------------------------------------

Init ==
    /\ LoopInit /\ EMInit /\ EntInit /\ CsInit /\ PoolInit /\ PerfInit
    /\ GameInit /\ BattleInit

Next ==
    \/ StartAction /\ UNCHANGED notLoopVars
    \/ Stop /\ UNCHANGED notLoopVars
    \/ FrameAction /\ UNCHANGED notLoopVars

Spec == Init /\ [][Next]_vars

NextEM ==
    \/ AddAction /\ UNCHANGED notEmVars
    \/ RemoveAction /\ UNCHANGED notEmVars
    \/ UpdateAction /\ UNCHANGED notEmVars
    \/ DetectCollisions /\ UNCHANGED notEmVars

SpecEM == Init /\ [][NextEM]_vars

\* the manager with entities that are also moved in place by their owner
NextEMMove ==
    \/ AddMovedAction /\ UNCHANGED notEmVars
    \/ RemoveAction /\ UNCHANGED notEmVars
    \/ UpdateMovedAction /\ UNCHANGED notEmVars
    \/ MoveAction /\ UNCHANGED notEmVars
    \/ DetectCollisions /\ UNCHANGED notEmVars

SpecEMMove == Init /\ [][NextEMMove]_vars

\* the manager with entities that are moved in place and then handed to
\* updateEntity themselves
NextEMSelf ==
    \/ AddMovedAction /\ UNCHANGED notEmVars
    \/ RemoveAction /\ UNCHANGED notEmVars
    \/ UpdateMovedAction /\ UNCHANGED notEmVars
    \/ MoveAction /\ UNCHANGED notEmVars
    \/ UpdateSelfAction /\ UNCHANGED notEmVars

SpecEMSelf == Init /\ [][NextEMSelf]_vars

\* the manager handed arguments of any structure
NextEMValidate ==
    \/ AddValidatedAction /\ UNCHANGED notEmVars
    \/ RemoveAction /\ UNCHANGED notEmVars

SpecEMValidate == Init /\ [][NextEMValidate]_vars

\* the manager with entities of two types, queried by type
NextEMTypes ==
    \/ AddTypedAction /\ UNCHANGED notEmVars
    \/ RemoveAction /\ UNCHANGED notEmVars
    \/ UpdateTypedAction /\ UNCHANGED notEmVars
    \/ GetByTypeAction /\ UNCHANGED notEmVars

SpecEMTypes == Init /\ [][NextEMTypes]_vars

\* Entity objects and the CollisionSystem's pair check
NextEntity ==
    \/ ConstructAction /\ UNCHANGED notEntVars
    \/ ActivateAction /\ UNCHANGED notEntVars
    \/ DeactivateAction /\ UNCHANGED notEntVars
    \/ IsCollidingAction /\ UNCHANGED notEntVars
    \/ CheckCollisionAction /\ UNCHANGED notEntVars

SpecEntity == Init /\ [][NextEntity]_vars

\* one Entity, its listeners and the methods that notify them
NextEntityEvents ==
    \/ ConstructMovingAction /\ UNCHANGED notEntVars
    \/ OnAction /\ UNCHANGED notEntVars
    \/ OffAction /\ UNCHANGED notEntVars
    \/ EntityUpdateAction /\ UNCHANGED notEntVars
    \/ SetVelocityAction /\ UNCHANGED notEntVars
    \/ SetPositionAction /\ UNCHANGED notEntVars
    \/ ActivateAction /\ UNCHANGED notEntVars
    \/ DeactivateAction /\ UNCHANGED notEntVars
    \/ DestroyAction /\ UNCHANGED notEntVars

SpecEntityEvents == Init /\ [][NextEntityEvents]_vars

\* the CollisionSystem's sweep over a list of entities
NextCollision ==
    \/ Initialize /\ UNCHANGED notCsVars
    \/ CsUpdateAction /\ UNCHANGED notCsVars

SpecCollision == Init /\ [][NextCollision]_vars

\* one ObjectPool
NextPool ==
    \/ NewPoolAction /\ UNCHANGED notPoolVars
    \/ Acquire /\ UNCHANGED notPoolVars
    \/ ReleaseAction /\ UNCHANGED notPoolVars
    \/ Clear /\ UNCHANGED notPoolVars

SpecPool == Init /\ [][NextPool]_vars

\* one PerformanceMonitor and its clock
NextPerf ==
    \/ PerfTick /\ UNCHANGED notPerfVars
    \/ StartFrame /\ UNCHANGED notPerfVars
    \/ EndFrame /\ UNCHANGED notPerfVars
    \/ PerfReset /\ UNCHANGED notPerfVars

SpecPerf == Init /\ [][NextPerf]_vars

\* the Game's ticks, the keyboard and the pause
NextGame ==
    \/ KeyDownAction /\ UNCHANGED notGameVars
    \/ KeyUpAction /\ UNCHANGED notGameVars
    \/ GameUpdateAction /\ UNCHANGED notGameVars
    \/ TogglePause /\ UNCHANGED notGameVars
    \/ StartGame /\ UNCHANGED notGameVars

SpecGame == Init /\ [][NextGame]_vars

\* the enemy formation: moved, shot at column by column, cleaned up, recreated
NextFormation ==
    \/ MoveEnemies /\ UNCHANGED notBattleVars
    \/ DeactivateColumnAction /\ UNCHANGED notBattleVars
    \/ CleanupEntities /\ UNCHANGED notBattleVars
    \/ NextLevel /\ UNCHANGED notBattleVars

SpecFormation == Init /\ [][NextFormation]_vars

\* the ticks of the game and the collisions of the player
NextBattle ==
    \/ UpdateTickAction /\ UNCHANGED notBattleVars
    \/ HandleCollisionAction /\ UNCHANGED notBattleVars

SpecBattle == Init /\ [][NextBattle]_vars

-----------------------------------------------------------------------------
(* Properties of the game loop *)

FrameRan == lastOp.op = "frame" /\ lastOp.ran

NumCalls(fn) == Cardinality({i \in 1..Len(trace) : trace[i].fn = fn})

\* the last iteration was ended by an exception thrown by updateFn
UpdateThrew ==
    lastOp.threw /\ Len(trace) > 0 /\ trace[Len(trace)].fn = "update"

\* C1: after every iteration of gameLoop() that runs while the loop is
\* running, 0 <= accumulator < frameInterval.
C1_AccumulatorDrained ==
    FrameRan => (0 <= accumulator /\ accumulator < frameInterval)

\* C2: every updateFn call made by the loop receives exactly frameInterval,
\* whatever the gap between the timestamps and the capped deltaTime are.
C2_FixedTimestep ==
    \A i \in 1..Len(trace) :
        trace[i].fn = "update" => trace[i].arg = frameInterval

C2_Witness ==
    /\ FrameRan
    /\ lastOp.delta = maxDeltaTime
    /\ NumCalls("update") = 2

C4_FailureContained ==
    (lastOp.op = "frame" /\ lastOp.threw) =>
        /\ ~lastOp.escaped
        /\ consecFails < maxErrors =>
               /\ lastOp.resched
               /\ pending > 0
               /\ isRunning <=> ~lastOp.userStop

C4_Witness ==
    /\ lastOp.op = "frame"
    /\ lastOp.threw
    /\ consecFails = maxErrors - 1
    /\ isRunning
    /\ pending > 0

\* C5: in the first run of a fresh loop, the loop stops itself exactly when
\* maxErrors consecutive iterations have failed; a successful iteration
\* resets errorCount to 0; after the fatal stop isRunning is false and no
\* callback is scheduled.
C5_FatalStopExactly ==
    starts = 1 =>
        /\ errorCount = consecFails
        /\ FrameRan =>
               /\ (lastOp.outcome = "fatal") <=> (consecFails >= maxErrors)
               /\ lastOp.outcome = "ok" => errorCount = 0
               /\ lastOp.outcome = "fatal" => ~lastOp.resched
        /\ consecFails >= maxErrors => (~isRunning /\ pending = 0)

C5_Witness ==
    /\ starts = 1
    /\ lastOp.outcome = "fatal"
    /\ consecFails = maxErrors
    /\ ~isRunning

\* C6: once stop() has set isRunning to false, no updateFn or renderFn call
\* occurs until start() is called again.
C6_NoCallAfterStop ==
    \A i \in 1..Len(trace) : trace[i].running

C8_UpdatesBeforeRender ==
    \A i \in 1..Len(trace) : \A j \in 1..Len(trace) :
        (trace[i].fn = "render" /\ j > i) => trace[j].fn # "update"

C8_Witness ==
    /\ FrameRan
    /\ NumCalls("update") >= 2
    /\ NumCalls("render") = 1
    /\ trace[Len(trace)].fn = "render"

\* C9: start() fails when either argument is not a function, and then the
\* loop state is unchanged: isRunning, the stored callbacks and the scheduled
\* callbacks are what they were.
C9_StartRejectsNonFunctions ==
    [][(lastOp'.op = "start" /\
        ~(TypeofFunction(lastOp'.arg1) /\ TypeofFunction(lastOp'.arg2)))
       => /\ lastOp'.threw
          /\ UNCHANGED <<isRunning, updateFn, renderFn, pending, lastFrameTime,
                         accumulator, errorCount>>]_vars

C9_Witness ==
    /\ lastOp.op = "start"
    /\ lastOp.threw
    /\ lastOp.arg1 \in Functions
    /\ ~isRunning
    /\ updateFn \in Functions

-----------------------------------------------------------------------------
(* Properties of the entity manager *)

StoredRefs == {entities[id] : id \in DOMAIN entities}

\* the brute-force sweep: every two stored objects that pass checkCollision
BruteForcePairs ==
    {p \in SUBSET StoredRefs :
        /\ Cardinality(p) = 2
        /\ \E a \in p, b \in p :
              a < b /\ checkCollision(objects[a], objects[b])}

NonNegativeSizes ==
    \A r \in StoredRefs : objects[r].width >= 0 /\ objects[r].height >= 0

\* C10 (as claimed): for any set of entities accepted by addEntity, the pairs
\* returned by detectCollisions() are the pairs of the brute-force check.
C10_GridEqualsBruteForce ==
    emOp.op = "detect" => DOMAIN collisions = BruteForcePairs

\* C10 (amended): for any set of stored entities whose width and height are
\* not negative, the pairs returned by detectCollisions() are the pairs of
\* the brute-force check.
C10_GridEqualsBruteForceNonNegative ==
    (emOp.op = "detect" /\ NonNegativeSizes) =>
        DOMAIN collisions = BruteForcePairs

C10_Witness ==
    /\ emOp.op = "detect"
    /\ NonNegativeSizes
    /\ Cardinality(StoredRefs) = 2
    /\ \E r \in StoredRefs : Cardinality(getCellKeys(objects[r])) = 4
    /\ BruteForcePairs # {}
    /\ DOMAIN collisions = BruteForcePairs

\* C11: detectCollisions() returns a deduplicated list: every colliding
\* unordered pair occurs at most once in it.
C11_Deduplicated ==
    emOp.op = "detect" => \A p \in DOMAIN collisions : collisions[p] = 1

\* C12: detectCollisions() never returns a pair in which an entity has
\* active = false.
C12_InactiveExcluded ==
    emOp.op = "detect" =>
        \A p \in DOMAIN collisions : \A r \in p : objects[r].active

\* C16: removeEntity(id) with an id that is not stored returns false, throws
\* nothing and leaves the entities map, the type map and the grid unchanged.
C16_RemoveUnknownIsNoOp ==
    [][(emOp'.op = "remove" /\ emOp'.arg \notin DOMAIN entities)
       => /\ ~emOp'.result
          /\ ~emOp'.threw
          /\ UNCHANGED <<objects, entities, entityTypeMap, spatialGrid>>]_vars

C16_Witness ==
    /\ emOp.op = "remove"
    /\ ~emOp.result
    /\ ~emOp.threw
    /\ emOp.arg \notin DOMAIN entities
    /\ DOMAIN entities # {}
    /\ spatialGrid # {}

\* C13: every entity referenced by the type map or by a grid cell is present
\* in the entities map, also after in-place moves of the entities.
C13_ReferencedAreStored ==
    /\ \A c \in spatialGrid : c[2] \in StoredRefs
    /\ \A t \in DOMAIN entityTypeMap : entityTypeMap[t] \subseteq DOMAIN entities

\* the structural validation the contract of addEntity states
StructurallyValid(entity) ==
    /\ ~entity.nullish
    /\ entity.id.typeof = "string" /\ entity.id.val # EmptyId
    /\ \A v \in {entity.x, entity.y, entity.width, entity.height} :
          v.typeof = "number"
    /\ entity.type.typeof = "string" /\ entity.type.val # ""
    /\ entity.active.typeof = "boolean"

\* C14: addEntity fails when the entity fails structural validation (id a
\* non-empty string, x/y/width/height numeric, type non-empty, active a
\* boolean) or its id is already present, and then the entities map, the type
\* map and the spatial grid are unchanged
C14_AddFailsOnInvalidOrDuplicate ==
    [][(emOp'.op = "add"
        /\ (\/ ~StructurallyValid(emOp'.entity)
            \/ emOp'.entity.id.val \in DOMAIN entities))
       => /\ emOp'.threw
          /\ UNCHANGED <<objects, entities, entityTypeMap, spatialGrid>>]_vars

\* C15: getEntitiesByType(type) returns exactly the stored entities that are
\* active and whose type tag equals type, after any sequence of addEntity,
\* updateEntity (also with a changed type) and removeEntity
C15_ByTypeExact ==
    emOp.op = "getEntitiesByType"
    => emOp.list = {r \in StoredRefs :
                      objects[r].active /\ objects[r].type = emOp.type}

-----------------------------------------------------------------------------
(* Properties of Entity and of the CollisionSystem *)

\* C17: constructing an Entity with a width or height that is zero (or not
\* positive) fails with a validation error and creates no entity
C17_ZeroAreaRejected ==
    [][(/\ entOp'.op = "construct"
        /\ \E v \in {entOp'.config.width, entOp'.config.height} :
              v.typeof = "number" /\ v.val <= 0)
       => entOp'.error # "none" /\ UNCHANGED ents]_vars

\* the closed boxes a and b have a point in common
SharePoint(a, b) ==
    \E px \in a.x..(a.x + a.width), py \in a.y..(a.y + a.height) :
        /\ px \in b.x..(b.x + b.width)
        /\ py \in b.y..(b.y + b.height)

\* C18: CollisionSystem.checkCollision reports collided = true exactly when
\* the two bounding boxes overlap or touch on both axes; boxes separated on
\* either axis do not collide
C18_InclusiveOverlap ==
    (entOp.op = "checkCollision" /\ entOp.error = "none")
    => (entOp.result <=> SharePoint(entOp.entity1.box, entOp.entity2.box))

\* the touching boxes (0,0,10,10) and (10,10,10,10) are reported as collided
C18_Witness ==
    /\ entOp.op = "checkCollision" /\ entOp.error = "none"
    /\ entOp.entity1.box = [x |-> 0, y |-> 0, width |-> 10, height |-> 10]
    /\ entOp.entity2.box = [x |-> 10, y |-> 10, width |-> 10, height |-> 10]
    /\ entOp.result
    /\ entOp.intersection = [x |-> 10, y |-> 10]

\* the bounds a and b overlap or touch on both axes
BoundsMeet(a, b) ==
    /\ a.left <= b.right /\ b.left <= a.right
    /\ a.top <= b.bottom /\ b.top <= a.bottom

\* C19: for two active entities isColliding is true when their bounds overlap
\* on both axes, exactly touching bounds included, and false when the bounds
\* are disjoint; it is false when either entity is inactive
C19_IsCollidingInclusive ==
    (/\ entOp.op = "isColliding"
     /\ \A s \in {entOp.self, entOp.other} :
           ents[s].width > 0 /\ ents[s].height > 0)
    => LET self == ents[entOp.self]
           other == ents[entOp.other]
       IN entOp.result <=>
             /\ self.active /\ other.active
             /\ BoundsMeet(getBounds(self), getBounds(other))

\* C20: the collision check of two entities fails with an invalid-dimension
\* error when either has zero width or zero height
C20_ZeroDimensionRejected ==
    (/\ entOp.op = "checkCollision"
     /\ \E b \in {entOp.entity1.box, entOp.entity2.box} :
           b.width = 0 \/ b.height = 0)
    => entOp.error = "InvalidDimension"

-----------------------------------------------------------------------------
(* Properties of the Entity's notifications *)

\* C23: destroy() delivers a final 'destroy' notification to the listeners
\* registered for it before they are cleared; afterwards active and visible
\* are false and no listener remains registered
C23_DestroyNotifiesThenClears ==
    [][entOp'.op = "destroy"
       => /\ entOp'.delivered = ents[entOp'.self].handlers["destroy"]
          /\ ~ents'[entOp'.self].active
          /\ ~ents'[entOp'.self].visible
          /\ \A ev \in Events : ents'[entOp'.self].handlers[ev] = <<>>]_vars

\* the event a mutating method emits
EventOf(op) ==
    CASE op = "update" -> "update"
      [] op = "setVelocity" -> "velocityChange"
      [] op = "setPosition" -> "positionChange"
      [] op = "activate" -> "activate"
      [] op = "deactivate" -> "deactivate"

\* C24: when a listener throws during an emission, the exception does not
\* reach the caller of update, setVelocity, setPosition, activate or
\* deactivate, every other listener of the event still runs, and the state
\* mutation stays applied
C24_ObserverIsolation ==
    [][(/\ entOp'.op \in {"update", "setVelocity", "setPosition", "activate",
                          "deactivate"}
        /\ (entOp'.op = "update" => ents[entOp'.self].active))
       => LET before == ents[entOp'.self]
              after == ents'[entOp'.self]
          IN /\ entOp'.error = "none"
             /\ entOp'.delivered = before.handlers[EventOf(entOp'.op)]
             /\ entOp'.op = "update" =>
                   after.x = before.x + (before.velocity.x * before.speed
                                          * entOp'.deltaTime) \div 1000
             /\ entOp'.op = "setVelocity" => after.velocity = entOp'.arg
             /\ entOp'.op = "setPosition" =>
                   after.x = entOp'.arg.x /\ after.y = entOp'.arg.y
             /\ entOp'.op = "activate" => after.active
             /\ entOp'.op = "deactivate" => ~after.active]_vars

\* setPosition with a throwing listener registered before a returning one:
\* both were called and the position is the new one
C24_Witness ==
    /\ entOp.op = "setPosition" /\ entOp.error = "none"
    /\ entOp.delivered = <<"throws", "returns">>
    /\ entOp.caught = <<"throws">>
    /\ ents[entOp.self].x = 5 /\ ents[entOp.self].y = 5

\* C25: update(deltaTime) on an inactive entity is a no-op: x and y are
\* unchanged and no 'update' notification is emitted
C25_InactiveUpdateNoOp ==
    [][(entOp'.op = "update" /\ ~ents[entOp'.self].active)
       => UNCHANGED ents /\ entOp'.delivered = <<>>]_vars

\* update(50) of an inactive entity that has a velocity, a speed and an
\* 'update' listener
C25_Witness ==
    /\ entOp.op = "update" /\ entOp.deltaTime = 50
    /\ ~ents[entOp.self].active
    /\ ents[entOp.self].velocity.x = 1 /\ ents[entOp.self].speed = 60
    /\ ents[entOp.self].handlers["update"] # <<>>
    /\ entOp.delivered = <<>>

-----------------------------------------------------------------------------
(* Properties of CollisionSystem.update *)

\* the number of results of the last update that report the objects a and b
Reported(a, b) ==
    Cardinality({k \in DOMAIN csOp.results :
                    {csOp.results[k].entity1, csOp.results[k].entity2} = {a, b}})

ListElements == {csOp.list[i] : i \in DOMAIN csOp.list}

\* C21: no collision is reported between two overlapping entities of the
\* same collision group, for example two enemies
C21_SameGroupIgnored ==
    csOp.op = "update"
    => \A k \in DOMAIN csOp.results :
          csOp.results[k].entity1.type # csOp.results[k].entity2.type

\* C22: update(entities) returns exactly one result for every unordered pair
\* of distinct entities of the list whose boxes collide and nothing else, and
\* the tree holds the entities of this list only, whatever it held before
C22_OneResultPerCollidingPair ==
    (csOp.op = "update" /\ csOp.error = "none")
    => /\ \A a \in ListElements, b \in ListElements :
             a # b => Reported(a, b) = IF SharePoint(a, b) THEN 1 ELSE 0
       /\ \A k \in DOMAIN csOp.results :
             /\ csOp.results[k].entity1 \in ListElements
             /\ csOp.results[k].entity2 \in ListElements
             /\ csOp.results[k].entity1 # csOp.results[k].entity2
       /\ {quadTree[i] : i \in DOMAIN quadTree} \subseteq ListElements

\* an update of three entities that collide pairwise, begun with a tree of
\* two entities
C22_Witness ==
    /\ csOp.op = "update" /\ csOp.error = "none"
    /\ Len(csOp.list) = 3 /\ Len(csOp.results) = 3
    /\ csOp.before = 2 /\ Len(quadTree) = 3

-----------------------------------------------------------------------------
(* Properties of the ObjectPool *)

\* C26: with maxSize > 0 the number of pooled objects, available plus
\* acquired, never exceeds maxSize, and acquire throws rather than grow the
\* pool past it
C26_SizeWithinMax ==
    (poolOptions # NoOptions /\ poolOptions.maxSize > 0)
    => Len(poolAvailable) + Cardinality(poolActive) <= poolOptions.maxSize

AvailableSet == {poolAvailable[i] : i \in DOMAIN poolAvailable}

\* C27: release(obj) throws and leaves the pool unchanged whenever obj is not
\* currently acquired from the pool; a successful release makes the object
\* available again exactly once
C27_ReleaseOnlyAcquired ==
    [][poolOp'.op = "release"
       => IF poolOp'.object \notin poolActive
          THEN /\ poolOp'.threw
               /\ UNCHANGED <<poolAvailable, poolActive, poolMetrics>>
          ELSE /\ ~poolOp'.threw
               /\ poolActive' = poolActive \ {poolOp'.object}
               /\ Cardinality({i \in DOMAIN poolAvailable' :
                                  poolAvailable'[i] = poolOp'.object}) = 1
               /\ \A i \in DOMAIN poolAvailable :
                     poolAvailable'[i] = poolAvailable[i]]_vars

\* a release that threw for an object that is available after it had been
\* acquired and released (double release)
C27_Witness ==
    /\ poolOp.op = "release" /\ poolOp.threw
    /\ poolOp.object \in AvailableSet
    /\ poolMetrics.maxUsed >= 1

-----------------------------------------------------------------------------
(* Properties of the PerformanceMonitor *)

\* C28: startFrame() throws exactly when a frame is open and endFrame()
\* throws exactly when no frame is open, for every clock reading, 0 included;
\* frameCount is the number of frames completed since construction or reset
C28_FrameProtocol ==
    [][/\ perfOp'.op = "startFrame" => (perfOp'.threw <=> perfOpen)
       /\ perfOp'.op = "endFrame" => (perfOp'.threw <=> ~perfOpen)
       /\ perf'.frameCount = perfCompleted']_vars

-----------------------------------------------------------------------------
(* Properties of the Game *)

\* C29: when a PLAYING game has been paused by the Escape/P key, a later
\* update() tick with input.escape set toggles paused back to false
C29_PauseReversibleByKey ==
    [][(/\ gameOp'.op = "update"
        /\ gameState.current = "PLAYING"
        /\ gameState.paused /\ pausedByKey
        /\ input.escape)
       => ~gameState'.paused]_vars

-----------------------------------------------------------------------------
(* The work of one iteration of the game loop *)

\* C30: each iteration adds at most maxDeltaTime to the accumulator, so one
\* iteration calls updateFn at most
\* floor((frameInterval + maxDeltaTime) / frameInterval) times, also in the
\* iterations that follow a failed iteration
C30_BoundedUpdatesPerFrame ==
    FrameRan =>
        /\ lastOp.delta <= maxDeltaTime
        /\ NumCalls("update") <= (frameInterval + maxDeltaTime) \div frameInterval

-----------------------------------------------------------------------------
(* Scheduling and the error budget of the game loop *)

\* C31: at most one gameLoop callback is pending at any time, for every
\* interleaving of start() and stop() with the scheduled frames
C31_AtMostOnePending == pending <= 1

\* C34: whenever isRunning is true, errorCount < maxErrors, so every run
\* begun by start() has the full error budget
C34_FullErrorBudget == isRunning => errorCount < maxErrors

-----------------------------------------------------------------------------
(* The grid cells of an updated entity *)

\* the cells in which the object r is registered
RegisteredCells(r) == {c[1] : c \in {d \in spatialGrid : d[2] = r}}

\* C32: after updateEntity the cells in which the entity is registered are
\* the cells computed from its current x, y, width and height, whether the
\* argument was a separate field object or the stored object after a move
C32_CellsMatchBounds ==
    (emOp.op = "update" /\ ~emOp.threw)
    => RegisteredCells(entities[emOp.arg])
          = getCellKeys(objects[entities[emOp.arg]])

-----------------------------------------------------------------------------
(* The two collision sweeps on the same entities *)

\* the unordered pairs of csOp.results
ReportedPairs ==
    {{csOp.results[k].entity1, csOp.results[k].entity2} :
        k \in DOMAIN csOp.results}

\* the unordered pairs EntityManager.detectCollisions() returns when the
\* entities of the list are the stored ones: two entities registered in one
\* cell for which the manager's checkCollision is true
ManagerPairs(list) ==
    {{list[i], list[j]} : <<i, j>> \in
        {p \in (DOMAIN list) \X (DOMAIN list) :
            /\ p[1] < p[2]
            /\ getCellKeys(list[p[1]]) \cap getCellKeys(list[p[2]]) # {}
            /\ checkCollision(list[p[1]], list[p[2]])}}

\* an active Entity with the box of the object o
ActiveEntityAt(o) ==
    [x |-> o.x, y |-> o.y, width |-> o.width, height |-> o.height,
     active |-> TRUE]

\* C33: for the same active entities CollisionSystem.update() and
\* EntityManager.detectCollisions() report the same unordered pairs, and
\* Entity.isColliding is true of exactly the reported pairs
C33_SweepsAgree ==
    (csOp.op = "update" /\ csOp.error = "none")
    => /\ ReportedPairs = ManagerPairs(csOp.list)
       /\ \A i \in DOMAIN csOp.list, j \in DOMAIN csOp.list :
             i < j =>
               ({csOp.list[i], csOp.list[j]} \in ReportedPairs
                  <=> isColliding(ActiveEntityAt(csOp.list[i]),
                                  ActiveEntityAt(csOp.list[j])))

-----------------------------------------------------------------------------
(* The pool's objects and its metrics *)

\* C35: the available list and the active set are disjoint in every state,
\* and acquire() never returns an object that is acquired at the time of the
\* call
C35_NeverHandedOutTwice ==
    /\ [](AvailableSet \cap poolActive = {})
    /\ [][(poolOp'.op = "acquire" /\ ~poolOp'.threw)
           => /\ poolOp'.object \notin poolActive
              /\ poolActive' = poolActive \cup {poolOp'.object}]_vars

\* a second object is acquired while the first is still out and a third one
\* is available
C35_Witness ==
    /\ poolOp.op = "acquire" /\ ~poolOp.threw
    /\ Cardinality(poolActive) = 2
    /\ poolOp.object \in poolActive
    /\ Len(poolAvailable) = 1

\* C36: getMetrics().size, available plus acquired, equals allocated in
\* every state; maxUsed is the running maximum of the number of acquired
\* objects since construction or the last clear(): 0 after these, never
\* below the current number, and raised by an acquire exactly to the new
\* number when that is larger
C36_MetricsConserved ==
    /\ [](/\ Len(poolAvailable) + Cardinality(poolActive)
                = poolMetrics.allocated
           /\ poolMetrics.maxUsed >= Cardinality(poolActive))
    /\ [][poolMetrics'.maxUsed =
             IF poolOp'.op \in {"new", "clear"} THEN 0
             ELSE IF Cardinality(poolActive') > poolMetrics.maxUsed
                  THEN Cardinality(poolActive')
                  ELSE poolMetrics.maxUsed]_vars

\* after a release the peak of two acquired objects is kept while one object
\* is out
C36_Witness ==
    /\ poolOp.op = "release" /\ ~poolOp.threw
    /\ poolMetrics.maxUsed = 2
    /\ Cardinality(poolActive) = 1
    /\ poolMetrics.allocated = 3

-----------------------------------------------------------------------------
(* Properties of the game's tick, lives and enemy formation *)

\* C37: a Game.update() tick of a PLAYING, unpaused game with two or more
\* active entities completes its collision sweep, cleanup and win/lose check
\* without throwing
C37_TickCompletes ==
    [][(/\ battleOp'.op = "update"
        /\ ~updateReturnsEarly(gameState)
        /\ Len(allEntities(enemies)) >= 2)
       => ~battleOp'.threw]_vars

\* C38: state.lives never goes below 0, and the state is GAME_OVER once the
\* lives have reached 0, however many hits on the player are handled
C38_LivesNeverNegative ==
    /\ lives >= 0
    /\ lives = 0 => gameState.current = "GAME_OVER"

\* C39: every active enemy satisfies 0 < x < CANVAS.WIDTH - width; a
\* moveEnemies() step that would put an active enemy at or past an edge
\* drops every active enemy by DROP_DISTANCE and reverses the direction
\* without a horizontal move, and any other step moves every active enemy
\* by one horizontal spacing in the current direction
C39_FormationOnScreen ==
    /\ [](\A k \in DOMAIN enemies :
            enemies[k].active
            => enemies[k].x > 0
               /\ enemies[k].x < CANVAS_WIDTH - enemies[k].width)
    /\ [][battleOp'.op = "moveEnemies"
          => LET step == SPACING_HORIZONTAL * enemyDirection
                 blocked ==
                     \E k \in DOMAIN enemies :
                         /\ enemies[k].active
                         /\ \/ enemies[k].x + step <= 0
                            \/ enemies[k].x + step
                                  >= CANVAS_WIDTH - enemies[k].width
             IN /\ DOMAIN enemies' = DOMAIN enemies
                /\ enemyDirection' =
                      IF blocked THEN 0 - enemyDirection ELSE enemyDirection
                /\ \A k \in DOMAIN enemies :
                      IF ~enemies[k].active
                      THEN enemies'[k] = enemies[k]
                      ELSE /\ enemies'[k].active
                           /\ enemies'[k].x =
                                 IF blocked THEN enemies[k].x
                                 ELSE enemies[k].x + step
                           /\ enemies'[k].y =
                                 IF blocked
                                 THEN enemies[k].y + DROP_DISTANCE
                                 ELSE enemies[k].y]_vars

\* the formation, its first column destroyed, has dropped at the left edge
\* in the second level and now moves right
C39_Witness ==
    /\ battleOp.op = "moveEnemies" /\ battleOp.movedDown
    /\ enemyDirection = 1
    /\ level = 2
    /\ Len(ActiveEnemies(enemies)) = ROWS * (COLUMNS - 1)
    /\ \E k \in DOMAIN enemies : enemies[k].active /\ enemies[k].x = 50

====
